---- MODULE Spec2Model ----
(***************************************************************************)
(* A model of audit.py, the project-scaffolding and session-logging CLI.   *)
(*                                                                         *)
(* Every invocation of the tool is a fresh process, so the only state that *)
(* survives an invocation is the filesystem.  One step of the model is one *)
(* whole invocation: argument parsing, the dispatched operation and the    *)
(* dispatcher's error boundary.  What the invocation printed, its exit     *)
(* status and the paths it accessed are recorded in `out`.                 *)
(*                                                                         *)
(* A path is the sequence of its components, counted from the directory    *)
(* that contains the configured root folder: << >> is that parent          *)
(* directory, AUDIT_FOLDER the root, AUDIT_FOLDER \o <<"a">> the project   *)
(* "a".  A command-line name is the sequence of the segments its path      *)
(* separators cut it into: "../a" is <<"..", "a">>, "a/" is <<"a", "">>,   *)
(* and << >> stands for an argument that was not given.                    *)
(***************************************************************************)
EXTENDS Naturals, Sequences, FiniteSets, Bags, TLC

VARIABLES fs, GIT_AUTOCOMMIT, out

vars == <<fs, GIT_AUTOCOMMIT, out>>

\* The most header blocks all inventory logs together may hold.
MaxBlocks == 2

(***************************************************************************)
(* Paths                                                                   *)
(***************************************************************************)
AUDIT_FOLDER == <<"audits">>

Front(s) == SubSeq(s, 1, Len(s) - 1)

Last(s) == s[Len(s)]

IsPrefix(p, q) == Len(p) <= Len(q) /\ SubSeq(q, 1, Len(p)) = p

\* os.path.join(base, seg) as the operating system resolves it: an empty
\* segment and "." name base itself, ".." names the directory above it.
Join(base, seg) ==
    IF seg = "" \/ seg = "." THEN base
    ELSE IF seg = ".." THEN (IF base = << >> THEN << >> ELSE Front(base))
    ELSE Append(base, seg)

\* os.path.relpath(p, top) for a path p below top.
RelPath(p, top) == SubSeq(p, Len(top) + 1, Len(p))

\* os.path.basename: what follows the last separator.
basename(raw) == Last(raw)

\* `not args.audit_name`: the argument is absent or the empty string.
Falsy(raw) == raw = << >> \/ raw = <<"">>

\* file.endswith(".log"), over the file names of the model.
EndsWithLog(file) == file \in {"s1.log", "s2.log"}

(***************************************************************************)
(* The filesystem: fs maps each existing path to its entry.  kind is "dir",*)
(* "file", or "bad" for a directory entry that os.walk lists among the     *)
(* files but that cannot be stat'ed or opened (a dangling link, a file     *)
(* deleted during the scan).  data is a file's content as a sequence.      *)
(***************************************************************************)
Dir == [kind |-> "dir", data |-> << >>]

File(d) == [kind |-> "file", data |-> d]

Bad == [kind |-> "bad", data |-> << >>]

\* os.path.exists follows links: an entry that cannot be stat'ed is absent.
Exists(f, p) == p \in DOMAIN f /\ f[p].kind # "bad"

IsDir(f, p) == p \in DOMAIN f /\ f[p].kind = "dir"

\* f with the entries of g added or replaced.
Overlay(f, g) ==
    [p \in DOMAIN f \cup DOMAIN g |-> IF p \in DOMAIN g THEN g[p] ELSE f[p]]

\* The non-directory entries os.walk(top) yields, in all directories below top.
WalkFiles(f, top) ==
    IF IsDir(f, top)
    THEN {p \in DOMAIN f : IsPrefix(top, p) /\ p # top /\ f[p].kind # "dir"}
    ELSE {}

\* The directories os.walk(top) enters.
WalkDirs(f, top) ==
    IF IsDir(f, top)
    THEN {p \in DOMAIN f : IsPrefix(top, p) /\ f[p].kind = "dir"}
    ELSE {}

\* The orders in which a directory scan may yield the members of S.
Orders(S) ==
    {s \in [1..Cardinality(S) -> S] : \A i, j \in DOMAIN s : i # j => s[i] # s[j]}

\* os.listdir(top): the names of the entries directly inside top.
listdir(f, top) == {Last(p) : p \in {q \in DOMAIN f : Len(q) = Len(top) + 1 /\ IsPrefix(top, q)}}

(***************************************************************************)
(* The skeleton tree that init copies.  The skel directory is shipped next *)
(* to audit.py; its content is taken from the persisted layout the         *)
(* specification gives: the marker file and the logs directory.            *)
(***************************************************************************)
Skel == {<<<<".audit">>, File(<< >>)>>, <<<<"logs">>, Dir>>}

\* The function with the entries S, a set of <<path, entry>> pairs.
FsOf(S) == [p \in {e[1] : e \in S} |-> (CHOOSE e \in S : e[1] = p)[2]]

\* A copy that only makes the target directory and leaves the skeleton out.
copytree_mkdir(f, dst) == Overlay(f, FsOf({<<dst, Dir>>}))

\* shutil.copytree(skel, dst): dst is created and the skeleton copied below it.
copytree(f, dst) ==
    Overlay(f, FsOf({<<dst, Dir>>} \cup {<<dst \o e[1], e[2]>> : e \in Skel}))

\* git init: the repository directory appears inside the project.
GitInit(f, path) ==
    Overlay(f, FsOf({<<path \o <<".git">>, Dir>>,
                     <<path \o <<".git", "HEAD">>, File(<< >>)>>}))

(***************************************************************************)
(* What an invocation reports.                                             *)
(*   error    "none", or the kind of the error that was printed            *)
(*   exit     the process's exit status                                    *)
(*   listed   the names list printed, in order                             *)
(*   touched  every path the operation read (a file's content or size, a   *)
(*            directory's listing) or wrote; a test for existence is not   *)
(*            counted                                                      *)
(*   gitcalls how many version-control commands were run                   *)
(*   warned   whether the version-control warning was printed              *)
(*   lenBefore  the number of blocks the inventory log held before the call*)
(***************************************************************************)
Raised == {"ConfigurationMissing", "NotFound", "AlreadyExists", "IOFailure",
           "ExternalToolFailure"}

UsageErrors == {"InvalidAction", "MissingName"}

\* The exit status: exit(1) after a usage error; after the try/except block
\* the script simply ends.
ExitStatus(error) == IF error \in UsageErrors THEN 1 ELSE 0

Report(action, name, error) ==
    [action |-> action, audit_name |-> name, error |-> error,
     exit |-> ExitStatus(error), listed |-> << >>, touched |-> {},
     gitcalls |-> 0, warned |-> FALSE, lenBefore |-> 0]

\* get_fullpath
get_fullpath(audit_name) == Join(AUDIT_FOLDER, audit_name)

(***************************************************************************)
(* The inventory logger                                                    *)
(***************************************************************************)
LogFile(audit_path) == audit_path \o <<"logs", "audit_file_list.txt">>

\* mode.upper()
Upper(mode) == IF mode = "start" THEN "START" ELSE "STOP"

\* `if file == 'audit_file_list.txt': continue`
SkipSelf(file) == file = "audit_file_list.txt"

\* The line written for one file: its relative path (with size and time), or
\* the error line naming the file when it cannot be stat'ed.
InventoryLine(f, p, top) ==
    IF f[p].kind = "bad"
    THEN [tag |-> "ERROR", path |-> <<Last(p)>>]
    ELSE [tag |-> "ENTRY", path |-> RelPath(p, top)]

\* The lines of one scan, one per file that is not skipped, as a bag: their
\* order is the filesystem's enumeration order.
RECURSIVE InventoryLines(_, _, _)
InventoryLines(f, S, top) ==
    IF S = {} THEN EmptyBag
    ELSE LET p == CHOOSE x \in S : TRUE
         IN  IF SkipSelf(Last(p))
             THEN InventoryLines(f, S \ {p}, top)
             ELSE InventoryLines(f, S \ {p}, top) (+) SetToBag({InventoryLine(f, p, top)})

\* open(log_file, 'a') succeeds when the logs directory exists and the log
\* is not a directory.
CanAppend(f, log_file) ==
    /\ IsDir(f, Front(log_file))
    /\ ~IsDir(f, log_file)

LogData(f, log_file) == IF log_file \in DOMAIN f THEN f[log_file].data ELSE << >>

\* The log opened in mode 'w' instead: it starts empty.
OpenTruncate(f, log_file) == << >>

\* What the log holds once it is opened in mode 'a': what it held before.
OpenAppend(f, log_file) == LogData(f, log_file)

\* generate_audit_file_log: the filesystem after it, the error it raises and
\* the paths it accesses.
generate_audit_file_log(f, audit_name, mode) ==
    LET audit_path == get_fullpath(audit_name)
        log_file   == LogFile(audit_path)
        opened     == Overlay(f, FsOf({<<log_file, File(OpenAppend(f, log_file))>>}))
        block      == [mode  |-> Upper(mode), audit |-> audit_name,
                       lines |-> InventoryLines(opened, WalkFiles(opened, audit_path), audit_path)]
    IN  IF ~Exists(f, audit_path)
        THEN [error |-> "NotFound", fs |-> f, touched |-> {}]
        ELSE IF ~CanAppend(f, log_file)
        THEN [error |-> "IOFailure", fs |-> f, touched |-> {}]
        ELSE [error |-> "none",
              fs |-> Overlay(f, FsOf({<<log_file, File(Append(OpenAppend(f, log_file), block))>>})),
              touched |-> {log_file} \cup WalkDirs(opened, audit_path)
                              \cup {p \in WalkFiles(opened, audit_path) : ~SkipSelf(Last(p))}]

\* The inventory logs of the filesystem, and the blocks they hold together.
InventoryLogs(f) == {p \in DOMAIN f : Len(p) >= 2 /\ SubSeq(p, Len(p) - 1, Len(p)) = <<"logs", "audit_file_list.txt">> /\ f[p].kind = "file"}

RECURSIVE CountBlocks(_, _)
CountBlocks(f, S) ==
    IF S = {} THEN 0
    ELSE LET p == CHOOSE x \in S : TRUE IN Len(f[p].data) + CountBlocks(f, S \ {p})

TotalBlocks(f) == CountBlocks(f, InventoryLogs(f))

(***************************************************************************)
(* The log exporter                                                        *)
(***************************************************************************)
ShellDir(audit_path) == audit_path \o <<"logs", "shell">>

HtmlFile(audit_path) == audit_path \o <<"shell_log.html">>

\* The test for the shell directory left out.
NoShellDirUnchecked(f, shell_dir) == FALSE

\* `if not os.path.exists(shell_dir)`
NoShellDir(f, shell_dir) == ~Exists(f, shell_dir)

\* The files of the walk that export reads.
ShellLogs(f, shell_dir) == {p \in WalkFiles(f, shell_dir) : EndsWithLog(Last(p))}

\* all_logs after the files were read in the order given: for each file the
\* separator, its name, the separator and its text.
RECURSIVE all_logs(_, _)
all_logs(f, order) ==
    IF order = << >> THEN << >>
    ELSE <<"====", Last(Head(order)), "====">> \o f[Head(order)].data \o all_logs(f, Tail(order))

\* The content written to shell_log.html.
HtmlOf(logs) == <<"<html><body><pre>">> \o logs \o <<"</pre></body></html>">>

\* export_shell_log, reading the shell logs in the order given.
export_shell_log(f, audit_name, order) ==
    LET audit_path == get_fullpath(audit_name)
        shell_dir  == ShellDir(audit_path)
        html_file  == HtmlFile(audit_path)
        read       == {order[i] : i \in DOMAIN order}
    IN  IF ~Exists(f, audit_path)
        THEN [error |-> "NotFound", fs |-> f, touched |-> {}]
        ELSE IF NoShellDir(f, shell_dir)
        THEN [error |-> "NoShellLogs", fs |-> f, touched |-> {}]
        ELSE IF \E p \in read : f[p].kind = "bad"
        THEN [error |-> "IOFailure", fs |-> f,
              touched |-> WalkDirs(f, shell_dir) \cup {p \in read : f[p].kind # "bad"}]
        ELSE [error |-> "none",
              fs |-> Overlay(f, FsOf({<<html_file, File(HtmlOf(all_logs(f, order)))>>})),
              touched |-> {html_file} \cup WalkDirs(f, shell_dir) \cup read]

(***************************************************************************)
(* The lister                                                              *)
(***************************************************************************)
\* The marker's name left out of the path tested: any entry counts.
HasMarkerAnyEntry(f, file) == Exists(f, AUDIT_FOLDER \o <<file>>)

\* `os.path.exists(os.path.join(AUDIT_FOLDER, file, '.audit'))`
HasMarker(f, file) == Exists(f, AUDIT_FOLDER \o <<file, ".audit">>)

\* The names printed when the entries of the root come in the order given.
RECURSIVE Printed(_, _)
Printed(f, order) ==
    IF order = << >> THEN << >>
    ELSE (IF HasMarker(f, Head(order)) THEN <<Head(order)>> ELSE << >>) \o Printed(f, Tail(order))

\* list_audits
list_audits(f, order) ==
    IF ~Exists(f, AUDIT_FOLDER)
    THEN [error |-> "ConfigurationMissing", listed |-> << >>, touched |-> {}]
    ELSE [error |-> "none", listed |-> Printed(f, order), touched |-> {AUDIT_FOLDER}]

(***************************************************************************)
(* init                                                                    *)
(***************************************************************************)
\* The marker tested in the place of the target path.
AlreadyExistsByMarker(f, audit_name) == Exists(f, get_fullpath(audit_name) \o <<".audit">>)

\* `if os.path.exists(fullpath): raise ...already exists`
AlreadyExists(f, audit_name) == Exists(f, get_fullpath(audit_name))

\* The hook without its try/except: a failing command raises out of init.
GitHookUncaught(f, fullpath, autocommit, failAt) ==
    IF ~autocommit
    THEN [fs |-> f, gitcalls |-> 0, warned |-> FALSE, raised |-> FALSE]
    ELSE [fs       |-> IF failAt = 1 THEN f ELSE GitInit(f, fullpath),
          gitcalls |-> IF failAt = 0 THEN 3 ELSE failAt,
          warned   |-> FALSE,
          raised   |-> failAt # 0]

\* The version-control hook.  failAt is the command that fails (1 git init,
\* 2 git add, 3 git commit), 0 when all three succeed; a failure skips the
\* commands after it, is caught inside the hook and is reported as a
\* warning, so nothing is raised to init.
GitHook(f, fullpath, autocommit, failAt) ==
    IF ~autocommit
    THEN [fs |-> f, gitcalls |-> 0, warned |-> FALSE, raised |-> FALSE]
    ELSE [fs       |-> IF failAt = 1 THEN f ELSE GitInit(f, fullpath),
          gitcalls |-> IF failAt = 0 THEN 3 ELSE failAt,
          warned   |-> failAt # 0,
          raised   |-> FALSE]

\* init
init(f, audit_name, autocommit, failAt) ==
    LET fullpath == get_fullpath(audit_name)
        copied   == copytree(f, fullpath)
        git      == GitHook(copied, fullpath, autocommit, failAt)
        written  == {fullpath} \cup {fullpath \o e[1] : e \in Skel}
                        \cup (DOMAIN git.fs \ DOMAIN copied)
    IN  IF ~Exists(f, AUDIT_FOLDER)
        THEN [error |-> "ConfigurationMissing", fs |-> f, touched |-> {},
              gitcalls |-> 0, warned |-> FALSE]
        ELSE IF AlreadyExists(f, audit_name)
        THEN [error |-> "AlreadyExists", fs |-> f, touched |-> {},
              gitcalls |-> 0, warned |-> FALSE]
        ELSE [error |-> IF git.raised THEN "ExternalToolFailure" ELSE "none",
              fs |-> git.fs, touched |-> written,
              gitcalls |-> git.gitcalls, warned |-> git.warned]

(***************************************************************************)
(* The command line                                                        *)
(***************************************************************************)
\* The name arguments tried: none, "a", "b", "../a", "..", "a/".
RawNames == {<< >>, <<"a">>, <<"b">>, <<"..", "a">>, <<"..">>, <<"a", "">>}

\* `if args.audit_name: args.audit_name = os.path.basename(args.audit_name)`
Sanitize(raw) == IF Falsy(raw) THEN "" ELSE basename(raw)

\* The check for a missing name, made for init, start, stop and export.
NameMissing(action, raw) == action \in {"init", "start", "stop", "export"} /\ Falsy(raw)

\* An action that is none of init, start, stop, export, list: usage, exit(1).
Invalid ==
    /\ out' = Report("invalid", "", "InvalidAction")
    /\ UNCHANGED <<fs, GIT_AUTOCOMMIT>>

CmdInit(raw) ==
    /\ IF NameMissing("init", raw)
       THEN /\ out' = Report("init", "", "MissingName")
            /\ fs' = fs
       ELSE \E failAt \in (IF GIT_AUTOCOMMIT THEN 0..3 ELSE {0}) :
              LET r == init(fs, Sanitize(raw), GIT_AUTOCOMMIT, failAt)
              IN  /\ fs' = r.fs
                  /\ out' = [Report("init", Sanitize(raw), r.error) EXCEPT
                               !.touched = r.touched, !.gitcalls = r.gitcalls,
                               !.warned = r.warned]
    /\ UNCHANGED GIT_AUTOCOMMIT

\* start and stop: both run generate_audit_file_log with their mode.
Session(mode, raw) ==
    /\ IF NameMissing(mode, raw)
       THEN /\ out' = Report(mode, "", "MissingName")
            /\ fs' = fs
       ELSE LET r == generate_audit_file_log(fs, Sanitize(raw), mode)
            IN  /\ r.error = "none" => TotalBlocks(fs) < MaxBlocks
                /\ fs' = r.fs
                /\ out' = [Report(mode, Sanitize(raw), r.error) EXCEPT
                             !.touched = r.touched,
                             !.lenBefore = Len(LogData(fs, LogFile(get_fullpath(Sanitize(raw)))))]
    /\ UNCHANGED GIT_AUTOCOMMIT

CmdStart(raw) == Session("start", raw)

CmdStop(raw) == Session("stop", raw)

CmdExport(raw) ==
    /\ IF NameMissing("export", raw)
       THEN /\ out' = Report("export", "", "MissingName")
            /\ fs' = fs
       ELSE \E order \in Orders(ShellLogs(fs, ShellDir(get_fullpath(Sanitize(raw))))) :
              LET r == export_shell_log(fs, Sanitize(raw), order)
              IN  /\ fs' = r.fs
                  /\ out' = [Report("export", Sanitize(raw), r.error) EXCEPT
                               !.touched = r.touched]
    /\ UNCHANGED GIT_AUTOCOMMIT

\* list takes no name: one given is never looked at.
CmdList ==
    /\ \E order \in Orders(listdir(fs, AUDIT_FOLDER)) :
         LET r == list_audits(fs, order)
         IN  out' = [Report("list", "", r.error) EXCEPT
                       !.touched = r.touched, !.listed = r.listed]
    /\ UNCHANGED <<fs, GIT_AUTOCOMMIT>>

(***************************************************************************)
(* The filesystems the tool is started on                                  *)
(***************************************************************************)
ProjA == AUDIT_FOLDER \o <<"a">>

ProjB == AUDIT_FOLDER \o <<"b">>

\* An existing project "a": the skeleton's entries, and what sessions and the
\* user added since: shell logs (shell 1: a log and a text file; shell 2: a
\* log and a log that cannot be read), a copy of the inventory log kept in
\* notes, an earlier export.
ProjectTree(shell, copy, html) ==
    {<<ProjA, Dir>>} \cup {<<ProjA \o e[1], e[2]>> : e \in Skel}
    \cup (IF shell = 0 THEN {}
          ELSE {<<ShellDir(ProjA), Dir>>,
                <<ShellDir(ProjA) \o <<"s1.log">>, File(<<"whoami">>)>>}
               \cup (IF shell = 1
                     THEN {<<ShellDir(ProjA) \o <<"cmd.txt">>, File(<<"todo">>)>>}
                     ELSE {<<ShellDir(ProjA) \o <<"s2.log">>, Bad>>}))
    \cup (IF copy THEN {<<ProjA \o <<"notes">>, Dir>>,
                        <<ProjA \o <<"notes", "audit_file_list.txt">>, File(<< >>)>>}
          ELSE {})
    \cup (IF html THEN {<<HtmlFile(ProjA), File(<<"old export">>)>>} ELSE {})

\* The states of project "a" tried, as <<shell, copy, html>>.
Projects ==
    {<<0, FALSE, FALSE>>, <<0, FALSE, TRUE>>, <<1, FALSE, FALSE>>,
     <<1, TRUE, TRUE>>, <<2, TRUE, FALSE>>}

\* The root is missing, or it holds a directory "b" that is no project (it
\* has no marker) and perhaps the project "a"; the directory above the root
\* may have a logs directory of its own.
InitialTrees ==
    {{<<<< >>, Dir>>}}
    \cup {{<<<< >>, Dir>>, <<AUDIT_FOLDER, Dir>>, <<ProjB, Dir>>} \cup parent \cup a :
            parent \in {{}, {<<<<"logs">>, Dir>>}},
            a \in {{}} \cup {ProjectTree(k[1], k[2], k[3]) : k \in Projects}}

Init ==
    /\ fs \in {FsOf(t) : t \in InitialTrees}
    /\ GIT_AUTOCOMMIT \in BOOLEAN
    /\ out = Report("none", "", "none")

Next ==
    \/ Invalid
    \/ CmdList
    \/ \E raw \in RawNames :
        \/ CmdInit(raw)
        \/ CmdStart(raw)
        \/ CmdStop(raw)
        \/ CmdExport(raw)

Spec == Init /\ [][Next]_vars

(***************************************************************************)
(* Properties                                                              *)
(*                                                                         *)
(* A step is recognised by what it leaves in out': Called(a) holds of a    *)
(* step in which the operation a was dispatched.                           *)
(***************************************************************************)
Called(a) == out'.action = a /\ out'.error \notin UsageErrors

Target == get_fullpath(out'.audit_name)

Count(seq, x) == Cardinality({i \in DOMAIN seq : seq[i] = x})

Names(seq) == {seq[i] : i \in DOMAIN seq}

\* C1: every path an operation reads or writes lies inside the configured
\* root folder, whatever name was given.
C1_NoEscape ==
    out.action \in {"init", "start", "stop", "export", "list"}
        => \A p \in out.touched : IsPrefix(AUDIT_FOLDER, p)

\* C2: an error that reaches the dispatcher is printed and the process ends
\* with a non-zero exit status.
C2_ErrorExitsNonZero == out.error \in Raised => out.exit # 0

\* C3: after a successful init of n, list reports n exactly once, and every
\* other name it reports was a recognised project before the init.
C3_InitThenList ==
    [][(Called("init") /\ out'.error = "none")
         => \A order \in Orders(listdir(fs', AUDIT_FOLDER)) :
              LET l == list_audits(fs', order).listed
              IN  /\ list_audits(fs', order).error = "none"
                  /\ Count(l, out'.audit_name) = 1
                  /\ \A i \in DOMAIN l :
                        l[i] # out'.audit_name
                            => Exists(fs, AUDIT_FOLDER \o <<l[i], ".audit">>)]_vars

C3_Witness ==
    /\ out.action = "init" /\ out.error = "none" /\ out.audit_name = "a"
    /\ \E order \in Orders(listdir(fs, AUDIT_FOLDER)) :
         Count(list_audits(fs, order).listed, "a") = 1

\* C4: init on a name whose target exists under the root fails with
\* AlreadyExists, changes nothing in the filesystem, copies nothing and
\* runs no version-control command.
C4_InitExistingUnchanged ==
    [][(Called("init") /\ Exists(fs, AUDIT_FOLDER) /\ Exists(fs, Target))
         => /\ out'.error = "AlreadyExists"
            /\ fs' = fs
            /\ out'.touched = {}
            /\ out'.gitcalls = 0]_vars

C4_Witness ==
    /\ out.action = "init" /\ out.error = "AlreadyExists" /\ out.audit_name = "a"
    /\ HasMarker(fs, "a")
    /\ HtmlFile(ProjA) \in DOMAIN fs

\* C5: the inventory log is append-only.  Every step keeps each log's
\* content as a prefix; a start or stop on a project succeeds, and every
\* start or stop that succeeds appends exactly one block, tagged with its
\* mode; a stop right after a start on the same project leaves the log two
\* blocks longer than before the start, tagged START then STOP.
C5_AppendOnly ==
    [][/\ \A p \in InventoryLogs(fs) :
             p \in InventoryLogs(fs') /\ IsPrefix(fs[p].data, fs'[p].data)
       /\ \A mode \in {"start", "stop"} :
             /\ (Called(mode) /\ Exists(fs, AUDIT_FOLDER \o <<out'.audit_name, ".audit">>)
                              /\ TotalBlocks(fs) < MaxBlocks)
                   => out'.error = "none"
             /\ (Called(mode) /\ out'.error = "none")
                   => LET log == LogData(fs', LogFile(Target))
                      IN  /\ Len(log) = Len(LogData(fs, LogFile(Target))) + 1
                          /\ log[Len(log)].mode = Upper(mode)
                          /\ log[Len(log)].audit = out'.audit_name
                          /\ \A p \in DOMAIN fs \ {LogFile(Target)} :
                                p \in DOMAIN fs' /\ fs'[p] = fs[p]
       /\ (/\ out.action = "start" /\ out.error = "none"
           /\ Called("stop") /\ out'.error = "none"
           /\ out'.audit_name = out.audit_name)
             => LET log == LogData(fs', LogFile(Target))
                IN  /\ Len(log) = out.lenBefore + 2
                    /\ Len(log) > out.lenBefore
                    /\ log[Len(log) - 1].mode = "START"
                    /\ log[Len(log)].mode = "STOP"]_vars

C5_Witness ==
    LET log == LogData(fs, LogFile(ProjA))
    IN  /\ out.action = "stop" /\ out.error = "none" /\ out.audit_name = "a"
        /\ Len(log) = 2
        /\ log[1].mode = "START" /\ log[2].mode = "STOP"

\* C6: a block written by start or stop on a project has a line for every
\* file of the project tree except the inventory log itself, and for no
\* other file: the log alone is left out.
C6_ListsAllButItself ==
    [][\A mode \in {"start", "stop"} :
         (Called(mode) /\ out'.error = "none"
                       /\ Exists(fs, AUDIT_FOLDER \o <<out'.audit_name, ".audit">>))
            => LET log   == LogData(fs', LogFile(Target))
                   lines == log[Len(log)].lines
                   tree  == WalkFiles(fs', Target) \ {LogFile(Target)}
               IN  /\ \A p \in tree :
                         IF fs'[p].kind = "bad"
                         THEN CopiesIn([tag |-> "ERROR", path |-> <<Last(p)>>], lines) >= 1
                         ELSE CopiesIn([tag |-> "ENTRY", path |-> RelPath(p, Target)], lines) = 1
                   /\ \A l \in BagToSet(lines) :
                         l.tag = "ENTRY" => (Target \o l.path) \in tree]_vars

C8_PerFileFailureNeverAborts ==
    [][/\ \A mode \in {"start", "stop"} :
             (Called(mode) /\ Exists(fs, Target) /\ CanAppend(fs, LogFile(Target)))
                => /\ out'.error = "none"
                   /\ Len(LogData(fs', LogFile(Target))) = Len(LogData(fs, LogFile(Target))) + 1
       /\ (Called("export") /\ Exists(fs, Target) /\ IsDir(fs, ShellDir(Target)))
             => /\ out'.error = "none"
                /\ HtmlFile(Target) \in DOMAIN fs'
                /\ \A p \in ShellLogs(fs, ShellDir(Target)) :
                      fs[p].kind # "bad" => Last(p) \in Names(fs'[HtmlFile(Target)].data)]_vars

\* C9: a failure of any version-control command during init is only a
\* warning: init succeeds, the copied project stays on disk and no error
\* reaches the dispatcher; without auto-commit no command is run.
C9_GitFailureIsWarning ==
    [][(Called("init") /\ Exists(fs, AUDIT_FOLDER) /\ ~Exists(fs, Target))
         => /\ out'.error = "none"
            /\ \A e \in Skel : (Target \o e[1]) \in DOMAIN fs' /\ fs'[Target \o e[1]] = e[2]
            /\ GIT_AUTOCOMMIT => out'.gitcalls \in 1..3 /\ (out'.gitcalls < 3 => out'.warned)
            /\ ~GIT_AUTOCOMMIT => out'.gitcalls = 0 /\ ~out'.warned]_vars

C9_Witness ==
    /\ GIT_AUTOCOMMIT
    /\ out.action = "init" /\ out.error = "none" /\ out.audit_name = "a"
    /\ out.warned /\ out.gitcalls = 2
    /\ HasMarker(fs, "a")

\* What list and init do with the name n in the filesystem f.
ReportedByList(f, n) ==
    \A order \in Orders(listdir(f, AUDIT_FOLDER)) : n \in Names(list_audits(f, order).listed)

RefusedByInit(f, n) ==
    \A failAt \in 0..3 : init(f, n, GIT_AUTOCOMMIT, failAt).error = "AlreadyExists"

\* C10: list reports a name under the root exactly when init would refuse
\* it with AlreadyExists, and both exactly when its marker file is present.
C10_MarkerDecidesBoth ==
    \A n \in listdir(fs, AUDIT_FOLDER) :
        /\ ReportedByList(fs, n) <=> RefusedByInit(fs, n)
        /\ ReportedByList(fs, n) <=> Exists(fs, AUDIT_FOLDER \o <<n, ".audit">>)

\* C10, amended: list reports a name under the root exactly when its marker
\* file is present; init refuses a name exactly when the path <root>/name
\* exists, marker or not; so init refuses every name that list reports.
C10_Amended ==
    /\ \A n \in listdir(fs, AUDIT_FOLDER) :
          /\ ReportedByList(fs, n) <=> Exists(fs, AUDIT_FOLDER \o <<n, ".audit">>)
          /\ ReportedByList(fs, n) => RefusedByInit(fs, n)
    /\ Exists(fs, AUDIT_FOLDER)
          => \A n \in {"a", "b"} : RefusedByInit(fs, n) <=> Exists(fs, AUDIT_FOLDER \o <<n>>)

C10_Witness ==
    /\ out.action = "init" /\ out.error = "AlreadyExists" /\ out.audit_name = "b"
    /\ ~Exists(fs, AUDIT_FOLDER \o <<"b", ".audit">>)
    /\ Exists(fs, AUDIT_FOLDER \o <<"a", ".audit">>)

====
